---- MODULE Spec2Model ----
(***************************************************************************)
(* Model of the pawsense_ai behaviour pipeline:                            *)
(*   feature_extraction.py    FeatureExtractor (sliding window, features)  *)
(*   action_classification.py recognize_action (rule-based classifier)     *)
(*   analyze_behavior.py      analyze_behavior (smoothing, segments,       *)
(*                            statistics, summary)                         *)
(*                                                                         *)
(* Numbers.  Lengths and positions are integers in units of 0.001 of the   *)
(* normalised coordinate (1000 per 1.0); angles are integer degrees.  A    *)
(* feature that the code computes as a mean or a variance is the exact     *)
(* rational <<numerator, denominator>> with denominator > 0, compared by   *)
(* cross-multiplication.  'tail_angle_variance' is a standard deviation in *)
(* the code (np.std); the model stores its square and compares it with the *)
(* squared threshold, which is the same test for non-negative values.      *)
(*                                                                         *)
(* A detection is represented by what the code reads from it after         *)
(* _process_result: the normalised y of the four paw keypoints (0, 6       *)
(* front, 3, 9 rear), the four leg angles and the tail angle that          *)
(* _compute_angle yields on its keypoints, the mean displacement of its    *)
(* keypoints from the detection before it (a row mean of `diffs`), and the *)
(* normalised box (cx, cy, w, h).  The four distance features              *)
(* (paw_distance_*, body_length, head_width) are read by nothing           *)
(* downstream and are left out of the feature set.                         *)
(***************************************************************************)
EXTENDS Integers, Sequences, FiniteSets, TLC

VARIABLES
    window_size,       \* FeatureExtractor.window_size
    history_buffer,    \* FeatureExtractor.history_buffer
    arrivals,          \* history: every valid detection passed to update, in order
    result,            \* the argument of the latest update / loop iteration
    features,          \* features returned by the latest update (or drawn input)
    kpts_norm,         \* keypoints returned by the latest update (or drawn input)
    action,            \* label returned by the latest recognize_action call
    idx,               \* analyze_behavior: number of results consumed so far
    motion_history,    \* analyze_behavior: the running-debounce buffer
    frame_actions,     \* analyze_behavior: the frame records
    raw_actions,       \* history: the label recognize_action gave each frame record
    behavior_summary,  \* analyze_behavior: the returned summary
    pc                 \* position: "loop", "done", "extract", "classify", "classified"

vars == <<window_size, history_buffer, arrivals, result, features, kpts_norm,
          action, idx, motion_history, frame_actions, raw_actions,
          behavior_summary, pc>>

\* ------------------------------------------------------------------------
\* Bounds of the model
\* ------------------------------------------------------------------------
MaxFrames == 8      \* longest result list given to analyze_behavior
MaxUpdates == 5     \* longest sequence of update calls on a bare extractor
MaxWindow == 3      \* largest window_size of a bare extractor

\* ------------------------------------------------------------------------
\* Values
\* ------------------------------------------------------------------------
None == [none |-> TRUE]

Zero == <<0, 1>>

RLt(a, b) == a[1] * b[2] < b[1] * a[2]

RGt(a, b) == RLt(b, a)

Abs(x) == IF x < 0 THEN -x ELSE x

RECURSIVE SumSeq(_)
SumSeq(s) == IF s = <<>> THEN 0 ELSE Head(s) + SumSeq(Tail(s))

Diffs(s) == [i \in 1..(Len(s) - 1) |-> s[i + 1] - s[i]]

\* np.mean of a sequence of integers
Mean(s) == <<SumSeq(s), Len(s)>>

\* np.var of a sequence of integers: (T * sum(x^2) - sum(x)^2) / T^2
Var(s) ==
    LET T == Len(s)
        sq == [i \in 1..T |-> s[i] * s[i]]
    IN  <<T * SumSeq(sq) - SumSeq(s) * SumSeq(s), T * T>>

\* ------------------------------------------------------------------------
\* feature_extraction.py
\* ------------------------------------------------------------------------
NoDetection == [detected |-> FALSE]

\* _process_result: (None, None) when the result carries no keypoints
process_result(r) ==
    IF ~r.detected THEN <<None, None>> ELSE <<r.kpts, r.bbox>>

\* _extract_semantic_features
extract_semantic_features(r) ==
    LET pr == process_result(r)
        k == pr[1]
        b == pr[2]
    IN  IF k = None THEN <<None, None>>
        ELSE <<[front_left_leg_angle  |-> k.legs[1],
                front_right_leg_angle |-> k.legs[2],
                rear_left_leg_angle   |-> k.legs[3],
                rear_right_leg_angle  |-> k.legs[4],
                tail_angle            |-> k.tail,
                bbox_width            |-> b[3],
                bbox_height           |-> b[4]], k>>

\* _count_peaks scanning from index 0: values[-1] is the last value in Python
count_peaks_from_zero(values) ==
    IF Len(values) < 3 THEN 0
    ELSE LET prev(i) == IF i = 1 THEN values[Len(values)] ELSE values[i - 1]
         IN  Cardinality({i \in 1..(Len(values) - 1) :
                \/ values[i] > prev(i) /\ values[i] > values[i + 1]
                \/ values[i] < prev(i) /\ values[i] < values[i + 1]})

\* FeatureExtractor._count_peaks
count_peaks(values) ==
    IF Len(values) < 3 THEN 0
    ELSE Cardinality({i \in 2..(Len(values) - 1) :
            \/ values[i] > values[i - 1] /\ values[i] > values[i + 1]
            \/ values[i] < values[i - 1] /\ values[i] < values[i + 1]})

\* FeatureExtractor._compute_motion_features: the keys it adds to features
compute_motion_features(buf) ==
    LET T == Len(buf)
        disp == [i \in 1..(T - 1) |-> buf[i + 1].kpts.disp]
        tail_angles == [i \in 1..T |-> buf[i].kpts.tail]
        centroid_y_seq == [i \in 1..T |-> buf[i].bbox[2]]
        centroid_x_seq == [i \in 1..T |-> buf[i].bbox[1]]
        front2 == [i \in 1..T |-> buf[i].kpts.y[0] + buf[i].kpts.y[6]]
        rear2 == [i \in 1..T |-> buf[i].kpts.y[3] + buf[i].kpts.y[9]]
        legVar == [j \in 1..4 |-> Var([i \in 1..T |-> buf[i].kpts.legs[j]])[1]]
        legChange == [j \in 1..4 |->
            SumSeq([i \in 1..(T - 1) |->
                        Abs(buf[i + 1].kpts.legs[j] - buf[i].kpts.legs[j])])]
    IN  [avg_velocity                 |-> Mean(disp),
         tail_angle_variance          |-> Var(tail_angles),
         tail_oscillation_count       |-> count_peaks(tail_angles),
         centroid_vertical_velocity   |-> Mean(Diffs(centroid_y_seq)),
         front_paws_vertical_velocity |-> <<SumSeq(Diffs(front2)), 2 * (T - 1)>>,
         rear_paws_vertical_velocity  |-> <<SumSeq(Diffs(rear2)), 2 * (T - 1)>>,
         bbox_center_variance         |->
             <<Var(centroid_x_seq)[1] + Var(centroid_y_seq)[1], 2 * T * T>>,
         leg_angle_variance           |-> <<SumSeq(legVar), 4 * T * T>>,
         leg_angle_change_rate        |-> <<SumSeq(legChange), 4 * (T - 1)>>]

\* The default values update sets when the buffer holds fewer than 2 frames
default_motion_features ==
    [avg_velocity                 |-> Zero,
     tail_angle_variance          |-> Zero,
     centroid_vertical_velocity   |-> Zero,
     front_paws_vertical_velocity |-> Zero]

\* append_evict with pop() in place of pop(0): the newest entry is dropped
append_evict_pops_newest(buf, entry, w) ==
    LET appended == Append(buf, entry)
    IN  IF Len(appended) > w THEN SubSeq(appended, 1, Len(appended) - 1) ELSE appended

\* history_buffer.append(...); pop(0) when longer than window_size
append_evict(buf, entry, w) ==
    LET appended == Append(buf, entry)
    IN  IF Len(appended) > w THEN Tail(appended) ELSE appended

\* update that empties the buffer when the result carries no detection
update_resets_on_none(buf, r, w) ==
    LET ex == extract_semantic_features(r)
        f == ex[1]
        k == ex[2]
    IN  IF k = None THEN <<f, k, <<>> >>
        ELSE LET nb == append_evict(buf, [kpts |-> k, bbox |-> process_result(r)[2]], w)
             IN  IF Len(nb) >= 2
                 THEN <<compute_motion_features(nb) @@ f, k, nb>>
                 ELSE <<default_motion_features @@ f, k, nb>>

\* FeatureExtractor.update: <<features, kpts_norm, history_buffer after the call>>
update(buf, r, w) ==
    LET ex == extract_semantic_features(r)
        f == ex[1]
        k == ex[2]
    IN  IF k = None THEN <<f, k, buf>>
        ELSE LET nb == append_evict(buf, [kpts |-> k, bbox |-> process_result(r)[2]], w)
             IN  IF Len(nb) >= 2
                 THEN <<compute_motion_features(nb) @@ f, k, nb>>
                 ELSE <<default_motion_features @@ f, k, nb>>

\* ------------------------------------------------------------------------
\* action_classification.py
\* ------------------------------------------------------------------------
VELOCITY_THRESHOLD_IDLE == 50
VELOCITY_THRESHOLD_WALK == 150
JUMP_VELOCITY_THRESHOLD == -15
REAR_FRONT_VELOCITY_THRESHOLD == -5
TAIL_VARIANCE_THRESHOLD == 9
TAIL_OSCILLATION_THRESHOLD == 25
LEG_STRIDE_THRESHOLD == 15

\* dict.get(key, default)
Get(f, key, default) == IF key \in DOMAIN f THEN f[key] ELSE default

\* is_jumping with <= in place of <
is_jumping_inclusive(centroid_vy) ==
    ~RGt(centroid_vy, <<JUMP_VELOCITY_THRESHOLD, 1>>)

\* line 41: centroid_vy < JUMP_VELOCITY_THRESHOLD
is_jumping(centroid_vy) == RLt(centroid_vy, <<JUMP_VELOCITY_THRESHOLD, 1>>)

\* line 45: front_vy < REAR_FRONT_VELOCITY_THRESHOLD or paw_height_diff > 0.3
\* (paw_height_diff is a rational: rear_paws_y - front_paws_y)
is_rearing(front_vy, paw_height_diff) ==
    \/ RLt(front_vy, <<REAR_FRONT_VELOCITY_THRESHOLD, 1>>)
    \/ RGt(paw_height_diff, <<300, 1>>)

\* dynamic_action with the rearing test ahead of the jumping test
dynamic_action_rearing_first(centroid_vy, front_vy, paw_height_diff) ==
    IF is_rearing(front_vy, paw_height_diff) THEN "rearing"
    ELSE IF is_jumping(centroid_vy) THEN "jumping"
    ELSE ""

\* lines 41-46: the dynamic high-priority actions, "" when neither fires
dynamic_action(centroid_vy, front_vy, paw_height_diff) ==
    IF is_jumping(centroid_vy) THEN "jumping"
    ELSE IF is_rearing(front_vy, paw_height_diff) THEN "rearing"
    ELSE ""

\* lines 49-57: the motion state
motion_state(avg_vel, leg_stride_var) ==
    IF RGt(avg_vel, <<VELOCITY_THRESHOLD_IDLE, 1>>)
    THEN IF /\ RGt(avg_vel, <<VELOCITY_THRESHOLD_WALK, 1>>)
            /\ RGt(leg_stride_var, <<LEG_STRIDE_THRESHOLD, 1>>)
         THEN "running"
         ELSE "walking"
    ELSE "idle"

\* is_tail_wagging with `or` in place of `and`
is_tail_wagging_either(tail_variance, tail_oscillations) ==
    \/ tail_variance[1] >
           TAIL_VARIANCE_THRESHOLD * TAIL_VARIANCE_THRESHOLD * tail_variance[2]
    \/ tail_oscillations > TAIL_OSCILLATION_THRESHOLD

\* lines 62-63
is_tail_wagging(tail_variance, tail_oscillations) ==
    /\ tail_variance[1] >
           TAIL_VARIANCE_THRESHOLD * TAIL_VARIANCE_THRESHOLD * tail_variance[2]
    /\ tail_oscillations > TAIL_OSCILLATION_THRESHOLD

\* lines 66-73: the four pose patterns
is_sitting(fl, fr, rl, rr) == (rl < 70 \/ rr < 70) /\ fl > 60 /\ fr > 60

\* is_standing with 60 (the front-leg threshold of sitting) as an inclusive bound
is_standing_low_threshold(fl, fr, rl, rr) ==
    rl >= 60 /\ rr >= 60 /\ fl >= 60 /\ fr >= 60

is_standing(fl, fr, rl, rr) == rl > 80 /\ rr > 80 /\ fl > 80 /\ fr > 80

is_standing_on_two_legs(rl, rr, rear_paws_y, front_paws_y, height_ratio) ==
    /\ rl > 80 /\ rr > 80
    /\ rear_paws_y[1] + Abs(front_paws_y[1]) > 600 * rear_paws_y[2]
    /\ RGt(height_ratio, <<3, 2>>)

is_lying(fl, fr, rl, rr) == rl < 40 /\ rr < 40 /\ fl < 50 /\ fr < 50

\* lines 60-73: the primary pose when idle
primary_pose(fl, fr, rl, rr, rear_paws_y, front_paws_y, height_ratio) ==
    IF is_sitting(fl, fr, rl, rr) THEN "sitting"
    ELSE IF is_standing(fl, fr, rl, rr) THEN "standing"
    ELSE IF is_standing_on_two_legs(rl, rr, rear_paws_y, front_paws_y, height_ratio)
         THEN "standing_on_two_legs"
    ELSE IF is_lying(fl, fr, rl, rr) THEN "lying"
    ELSE "unknown"

\* construct_label that reports tail wagging while moving as well
construct_label_wagging_while_moving(motion, pose, wagging) ==
    IF motion # "idle" THEN (IF wagging THEN motion \o "_wagging" ELSE motion)
    ELSE IF pose = "unknown" THEN "idle"
    ELSE IF wagging THEN pose \o "_wagging"
    ELSE pose

\* lines 76-86: the label
construct_label(motion, pose, wagging) ==
    IF motion # "idle" THEN motion
    ELSE IF pose = "unknown" THEN "idle"
    ELSE IF wagging THEN pose \o "_wagging"
    ELSE pose

recognize_action(f, keypoints_norm) ==
    IF f = None \/ keypoints_norm = None THEN "unknown"
    ELSE
    LET avg_vel == Get(f, "avg_velocity", Zero)
        centroid_vy == Get(f, "centroid_vertical_velocity", Zero)
        front_vy == Get(f, "front_paws_vertical_velocity", Zero)
        tail_variance == Get(f, "tail_angle_variance", Zero)
        tail_oscillations == Get(f, "tail_oscillation_count", 0)
        leg_stride_var == Get(f, "leg_angle_variance", Zero)
        fl_angle == f.front_left_leg_angle
        fr_angle == f.front_right_leg_angle
        rl_angle == f.rear_left_leg_angle
        rr_angle == f.rear_right_leg_angle
        \* bbox_h / (bbox_w + 1e-6), in units of 1e-6
        height_ratio == <<f.bbox_height * 1000, f.bbox_width * 1000 + 1>>
        front_paws_y == <<keypoints_norm.y[0] + keypoints_norm.y[6], 2>>
        rear_paws_y == <<keypoints_norm.y[3] + keypoints_norm.y[9], 2>>
        paw_height_diff == <<rear_paws_y[1] - front_paws_y[1], 2>>
        dyn == dynamic_action(centroid_vy, front_vy, paw_height_diff)
        motion == motion_state(avg_vel, leg_stride_var)
        pose == IF motion = "idle"
                THEN primary_pose(fl_angle, fr_angle, rl_angle, rr_angle,
                                  rear_paws_y, front_paws_y, height_ratio)
                ELSE "unknown"
    IN  IF dyn # "" THEN dyn
        ELSE construct_label(motion, pose,
                             is_tail_wagging(tail_variance, tail_oscillations))

\* ------------------------------------------------------------------------
\* analyze_behavior.py
\* ------------------------------------------------------------------------
MOTION_BUFFER_SIZE == 5

\* current_action = None (line 48)
NoAction == "None"

\* temporal_filter that keeps motion_history on a non-running label
temporal_filter_no_clear(mh, a) ==
    IF a = "running"
    THEN LET appended == Append(mh, "running")
             popped == IF Len(appended) > MOTION_BUFFER_SIZE
                       THEN Tail(appended) ELSE appended
         IN  <<popped, IF Len(popped) < MOTION_BUFFER_SIZE THEN "walking" ELSE a>>
    ELSE <<mh, a>>

\* lines 25-32, temporal filtering: <<motion_history, action>> after the step
temporal_filter(mh, a) ==
    IF a = "running"
    THEN LET appended == Append(mh, "running")
             popped == IF Len(appended) > MOTION_BUFFER_SIZE
                       THEN Tail(appended) ELSE appended
         IN  <<popped, IF Len(popped) < MOTION_BUFFER_SIZE THEN "walking" ELSE a>>
    ELSE <<<<>>, a>>

\* frame_record with 30 in place of 10 as the oscillation minimum of the flag
frame_record_high_minimum(i, a, f) ==
    [frame                      |-> i,
     action                     |-> a,
     velocity                   |-> Get(f, "avg_velocity", Zero),
     tail_variance              |-> Get(f, "tail_angle_variance", Zero),
     is_tail_wagging            |->
         LET tv == Get(f, "tail_angle_variance", Zero)
         IN  tv[1] > 9 * 9 * tv[2] /\ Get(f, "tail_oscillation_count", 0) > 30,
     centroid_vertical_velocity |-> Get(f, "centroid_vertical_velocity", Zero),
     leg_angle_variance         |-> Get(f, "leg_angle_variance", Zero)]

\* lines 35-44: the frame record
frame_record(i, a, f) ==
    [frame                      |-> i,
     action                     |-> a,
     velocity                   |-> Get(f, "avg_velocity", Zero),
     tail_variance              |-> Get(f, "tail_angle_variance", Zero),
     is_tail_wagging            |->
         LET tv == Get(f, "tail_angle_variance", Zero)
         IN  tv[1] > 9 * 9 * tv[2] /\ Get(f, "tail_oscillation_count", 0) > 10,
     centroid_vertical_velocity |-> Get(f, "centroid_vertical_velocity", Zero),
     leg_angle_variance         |-> Get(f, "leg_angle_variance", Zero)]

\* close_segment with end_frame one too far
close_segment_end_off_by_one(current_action, segment_start, i) ==
    [action           |-> current_action,
     start_frame      |-> segment_start,
     end_frame        |-> i,
     duration_frames  |-> i - segment_start,
     duration_seconds |-> <<i - segment_start, 30>>]

\* lines 54-60 and 66-72: the segment closed when the scan stands at position i
close_segment(current_action, segment_start, i) ==
    [action           |-> current_action,
     start_frame      |-> segment_start,
     end_frame        |-> i - 1,
     duration_frames  |-> i - segment_start,
     duration_seconds |-> <<i - segment_start, 30>>]

\* lines 51-72: the scan over frame_actions from position i (0-based)
RECURSIVE segment_scan(_, _, _, _, _)
segment_scan(fa, i, current_action, segment_start, segs) ==
    IF i = Len(fa)
    THEN IF current_action # NoAction
         THEN Append(segs, close_segment(current_action, segment_start, Len(fa)))
         ELSE segs
    ELSE IF fa[i + 1].action # current_action
         THEN segment_scan(fa, i + 1, fa[i + 1].action, i,
                  IF current_action # NoAction
                  THEN Append(segs, close_segment(current_action, segment_start, i))
                  ELSE segs)
         ELSE segment_scan(fa, i + 1, current_action, segment_start, segs)

\* lines 47-72
action_segments(fa) == segment_scan(fa, 0, NoAction, 0, <<>>)

\* f"{(a / b * 100):.1f}%": a / b as a percentage with one decimal, rounded
\* half to even (the value Python prints for every 0 <= a <= b < 80; beyond,
\* the rounding of a / b * 100 in floating point decides some exact ties)
percent_string(a, b) ==
    LET n == 1000 * a
        q == n \div b
        r == n % b
        tenths == IF 2 * r > b \/ (2 * r = b /\ q % 2 = 1) THEN q + 1 ELSE q
    IN  ToString(tenths \div 10) \o "." \o ToString(tenths % 10) \o "%"

\* action_stats with the wagging frames counted over all frame records
action_stats_wags_of_all_frames(fa) ==
    [action_type \in {fa[i].action : i \in 1..Len(fa)} |->
        LET action_frames == {i \in 1..Len(fa) : fa[i].action = action_type}
            tail_wags == {i \in 1..Len(fa) : fa[i].is_tail_wagging}
        IN  [total_frames            |-> Cardinality(action_frames),
             percentage              |->
                 percent_string(Cardinality(action_frames), Len(fa)),
             tail_wagging_frames     |-> Cardinality(tail_wags),
             tail_wagging_percentage |->
                 percent_string(Cardinality(tail_wags), Cardinality(action_frames))]]

\* lines 75-88: the counts and percentages per action (the formatted velocity
\* figures avg_velocity and velocity_range are not modelled)
action_stats(fa) ==
    [action_type \in {fa[i].action : i \in 1..Len(fa)} |->
        LET action_frames == {i \in 1..Len(fa) : fa[i].action = action_type}
            tail_wags == {i \in action_frames : fa[i].is_tail_wagging}
        IN  [total_frames            |-> Cardinality(action_frames),
             percentage              |->
                 percent_string(Cardinality(action_frames), Len(fa)),
             tail_wagging_frames     |-> Cardinality(tail_wags),
             tail_wagging_percentage |->
                 percent_string(Cardinality(tail_wags), Cardinality(action_frames))]]

\* lines 91-105
summary(fa) ==
    [video_info          |-> [total_frames |-> Len(fa), estimated_fps |-> 30],
     action_statistics   |-> action_stats(fa),
     action_timeline     |-> action_segments(fa),
     frame_by_frame_data |-> fa]

\* ------------------------------------------------------------------------
\* Inputs
\* ------------------------------------------------------------------------
PawY(front, rear) == [i \in {0, 3, 6, 9} |-> IF i \in {0, 6} THEN front ELSE rear]

Detection(legs, tail, disp, front, rear, cy) ==
    [detected |-> TRUE,
     kpts     |-> [y |-> PawY(front, rear), legs |-> legs, tail |-> tail, disp |-> disp],
     bbox     |-> <<500, cy, 400, 300>>]

\* legs bent, moving
DetA == Detection(<<80, 80, 80, 80>>, 0, 200, 0, 0, 500)

\* legs stretched, moving
DetB == Detection(<<100, 100, 100, 100>>, 0, 200, 0, 0, 500)

\* rear paws far below the front paws
DetX == Detection(<<80, 80, 80, 80>>, 0, 200, 0, 400, 500)

\* tail raised, box moved up
DetD == Detection(<<80, 80, 80, 80>>, 30, 40, 0, 0, 484)

Results == {NoDetection, DetA, DetB, DetX}

ExtractorResults == Results \cup {DetD}

\* ------------------------------------------------------------------------
\* analyze_behavior(results), one loop iteration per step
\* ------------------------------------------------------------------------
Init ==
    /\ window_size = 60
    /\ history_buffer = <<>>
    /\ arrivals = <<>>
    /\ result = None
    /\ features = None
    /\ kpts_norm = None
    /\ action = NoAction
    /\ idx = 0
    /\ motion_history = <<>>
    /\ frame_actions = <<>>
    /\ raw_actions = <<>>
    /\ behavior_summary = None
    /\ pc = "loop"

\* lines 18-44: one loop iteration on a result with a detection
StepDetected(r) ==
    /\ pc = "loop"
    /\ r.detected
    /\ \E u \in {update(history_buffer, r, window_size)} :
       \E a \in {recognize_action(u[1], u[2])} :
       \E tf \in {temporal_filter(motion_history, a)} :
           /\ features' = u[1]
           /\ kpts_norm' = u[2]
           /\ history_buffer' = u[3]
           /\ action' = a
           /\ motion_history' = tf[1]
           /\ frame_actions' = Append(frame_actions, frame_record(idx, tf[2], u[1]))
           /\ raw_actions' = Append(raw_actions, a)
    /\ arrivals' = Append(arrivals, r)
    /\ result' = r
    /\ idx' = idx + 1
    /\ UNCHANGED <<window_size, behavior_summary, pc>>

\* StepUndetected that empties motion_history when nothing is detected
StepUndetected_clears_history(r) ==
    /\ pc = "loop"
    /\ ~r.detected
    /\ \E u \in {update(history_buffer, r, window_size)} :
           /\ features' = u[1]
           /\ kpts_norm' = u[2]
           /\ history_buffer' = u[3]
    /\ motion_history' = <<>>
    /\ result' = r
    /\ idx' = idx + 1
    /\ UNCHANGED <<window_size, arrivals, action, frame_actions,
                   raw_actions, behavior_summary, pc>>

\* lines 18-21: one loop iteration on a result without detection
StepUndetected(r) ==
    /\ pc = "loop"
    /\ ~r.detected
    /\ \E u \in {update(history_buffer, r, window_size)} :
           /\ features' = u[1]
           /\ kpts_norm' = u[2]
           /\ history_buffer' = u[3]
    /\ result' = r
    /\ idx' = idx + 1
    /\ UNCHANGED <<window_size, arrivals, action, motion_history, frame_actions,
                   raw_actions, behavior_summary, pc>>

\* lines 18-44, a result with a detection, in a list of at most MaxFrames
ProcessDetected(r) == idx < MaxFrames /\ StepDetected(r)

\* lines 18-21, a result without detection, in a list of at most MaxFrames
ProcessUndetected(r) == idx < MaxFrames /\ StepUndetected(r)

\* lines 46-105, once the result list is exhausted
Finish ==
    /\ pc = "loop"
    /\ behavior_summary' = summary(frame_actions)
    /\ pc' = "done"
    /\ UNCHANGED <<window_size, history_buffer, arrivals, result, features,
                   kpts_norm, action, idx, motion_history, frame_actions,
                   raw_actions>>

Next ==
    \/ \E r \in Results : ProcessDetected(r)
    \/ \E r \in Results : ProcessUndetected(r)
    \/ Finish

Spec == Init /\ [][Next]_vars

\* ------------------------------------------------------------------------
\* analyze_behavior(results) on long lists of a standing dog wagging its tail:
\* the tail angle flips between 0 and 30 from one detection to the next, but
\* for at most MaxDeviations results that are a missing detection, a detection
\* with the tail angle of the one before, or the rearing detection DetX
\* ------------------------------------------------------------------------
MaxWagFrames == 29

MaxDeviations == 1

Wag0 == Detection(<<90, 90, 90, 90>>, 0, 0, 0, 0, 500)

Wag1 == Detection(<<90, 90, 90, 90>>, 30, 0, 0, 0, 500)

WagResults == {NoDetection, Wag0, Wag1, DetX}

\* the number of results, among the first n with valid detections arr, that
\* do not continue the flipping of the tail
Deviations(arr, n) ==
    (n - Len(arr)) +
    Cardinality({i \in 1..Len(arr) :
        \/ arr[i] = DetX
        \/ i > 1 /\ arr[i].kpts.tail = arr[i - 1].kpts.tail})

WagDetected(r) ==
    /\ idx < MaxWagFrames
    /\ r.detected
    /\ Deviations(Append(arrivals, r), idx + 1) <= MaxDeviations
    /\ StepDetected(r)

WagUndetected(r) ==
    /\ idx < MaxWagFrames
    /\ Deviations(arrivals, idx + 1) <= MaxDeviations
    /\ StepUndetected(r)

NextWag ==
    \/ \E r \in WagResults : WagDetected(r)
    \/ \E r \in WagResults : WagUndetected(r)
    \/ Finish

SpecWag == Init /\ [][NextWag]_vars

\* ------------------------------------------------------------------------
\* A bare FeatureExtractor(window_size) under a sequence of update calls
\* ------------------------------------------------------------------------
InitExtractor ==
    /\ window_size \in 1..MaxWindow
    /\ history_buffer = <<>>
    /\ arrivals = <<>>
    /\ result = None
    /\ features = None
    /\ kpts_norm = None
    /\ action = NoAction
    /\ idx = 0
    /\ motion_history = <<>>
    /\ frame_actions = <<>>
    /\ raw_actions = <<>>
    /\ behavior_summary = None
    /\ pc = "extract"

\* FeatureExtractor.update(result), result with a detection
UpdateDetected(r) ==
    /\ pc = "extract"
    /\ idx < MaxUpdates
    /\ r.detected
    /\ \E u \in {update(history_buffer, r, window_size)} :
           /\ features' = u[1]
           /\ kpts_norm' = u[2]
           /\ history_buffer' = u[3]
    /\ arrivals' = Append(arrivals, r)
    /\ result' = r
    /\ idx' = idx + 1
    /\ UNCHANGED <<window_size, action, motion_history, frame_actions,
                   raw_actions, behavior_summary, pc>>

\* FeatureExtractor.update(result), result without detection
UpdateUndetected(r) ==
    /\ pc = "extract"
    /\ idx < MaxUpdates
    /\ ~r.detected
    /\ \E u \in {update(history_buffer, r, window_size)} :
           /\ features' = u[1]
           /\ kpts_norm' = u[2]
           /\ history_buffer' = u[3]
    /\ result' = r
    /\ idx' = idx + 1
    /\ UNCHANGED <<window_size, arrivals, action, motion_history, frame_actions,
                   raw_actions, behavior_summary, pc>>

NextExtractor ==
    \/ \E r \in ExtractorResults : UpdateDetected(r)
    \/ \E r \in ExtractorResults : UpdateUndetected(r)

SpecExtractor == InitExtractor /\ [][NextExtractor]_vars

\* ------------------------------------------------------------------------
\* recognize_action as a pure function of drawn inputs
\* ------------------------------------------------------------------------
FeatureInputs ==
    {[avg_velocity                 |-> av,
      centroid_vertical_velocity   |-> cv,
      front_paws_vertical_velocity |-> fv,
      tail_angle_variance          |-> tv,
      tail_oscillation_count       |-> osc,
      leg_angle_variance           |-> lv,
      front_left_leg_angle         |-> legs[1],
      front_right_leg_angle        |-> legs[2],
      rear_left_leg_angle          |-> legs[3],
      rear_right_leg_angle         |-> legs[4],
      bbox_width                   |-> box[1],
      bbox_height                  |-> box[2]] :
        av \in {<<0, 1>>, <<100, 1>>, <<200, 1>>},
        cv \in {<<-16, 1>>, <<-31, 2>>, <<-15, 1>>, <<0, 1>>},
        fv \in {<<-6, 1>>, <<-5, 1>>, <<0, 1>>},
        tv \in {<<0, 1>>, <<81, 1>>, <<100, 1>>},
        osc \in {0, 25, 26},
        lv \in {<<0, 1>>, <<16, 1>>},
        legs \in {<<90, 90, 60, 60>>, <<90, 90, 90, 90>>, <<30, 30, 30, 30>>,
                  <<50, 50, 90, 90>>, <<75, 75, 75, 75>>},
        box \in {<<400, 300>>, <<200, 400>>}}

KeypointInputs ==
    {[y |-> PawY(0, 0)], [y |-> PawY(0, 400)], [y |-> PawY(400, 300)]}

InitClassify ==
    /\ features \in FeatureInputs \cup {None}
    /\ kpts_norm \in KeypointInputs \cup {None}
    /\ window_size = 60
    /\ history_buffer = <<>>
    /\ arrivals = <<>>
    /\ result = None
    /\ action = NoAction
    /\ idx = 0
    /\ motion_history = <<>>
    /\ frame_actions = <<>>
    /\ raw_actions = <<>>
    /\ behavior_summary = None
    /\ pc = "classify"

\* recognize_action(features, keypoints_norm)
Classify ==
    /\ pc = "classify"
    /\ action' = recognize_action(features, kpts_norm)
    /\ pc' = "classified"
    /\ UNCHANGED <<window_size, history_buffer, arrivals, result, features,
                   kpts_norm, idx, motion_history, frame_actions, raw_actions,
                   behavior_summary>>

NextClassify == Classify

SpecClassify == InitClassify /\ [][NextClassify]_vars

\* ------------------------------------------------------------------------
\* Properties
\* ------------------------------------------------------------------------
Poses == {"sitting", "standing", "standing_on_two_legs", "lying"}

PlainLabels == Poses \cup {"unknown", "jumping", "rearing", "walking", "running", "idle"}

WaggingLabels == {pose \o "_wagging" : pose \in Poses}

MotionKeys ==
    {"avg_velocity", "tail_angle_variance", "tail_oscillation_count",
     "centroid_vertical_velocity", "front_paws_vertical_velocity",
     "rear_paws_vertical_velocity", "leg_angle_variance",
     "leg_angle_change_rate", "bbox_center_variance"}

Timeline == behavior_summary.action_timeline

\* 1-based position in frame_actions of the first record of segment k
FirstRecord(k) == 1 + SumSeq([j \in 1..(k - 1) |-> Timeline[j].duration_frames])

\* the 4 classified frames before record i and record i itself were raw "running"
FiveRawRunning(i) == i >= 5 /\ \A j \in (i - 4)..i : raw_actions[j] = "running"

\* C1: a frame record is smoothed to "running" only if it and the 4 classified
\* frames before it were all raw "running"; every other raw "running" frame is
\* recorded as "walking"; a non-running label is recorded unchanged and
\* restarts the count.
C1_RunningDebounce ==
    /\ Len(raw_actions) = Len(frame_actions)
    /\ \A i \in 1..Len(frame_actions) :
        /\ frame_actions[i].action = "running" <=> FiveRawRunning(i)
        /\ (raw_actions[i] = "running" /\ ~FiveRawRunning(i))
               => frame_actions[i].action = "walking"
        /\ raw_actions[i] # "running" => frame_actions[i].action = raw_actions[i]

\* C1 witness: "running" surfaced, a later non-running frame, and after it a raw
\* "running" frame recorded as "walking"
C1_Witness ==
    \E i, j, k \in 1..Len(frame_actions) :
        /\ i < j /\ j < k
        /\ frame_actions[i].action = "running"
        /\ raw_actions[j] # "running"
        /\ raw_actions[k] = "running" /\ frame_actions[k].action = "walking"

\* C2: the segments' frame counts sum to the number N of frame records, the
\* segments are ordered and contiguous in record positions (first starts at
\* the first record, last ends at the last, each starts right after the one
\* before ends), and adjacent segments carry different labels.
C2_SegmentsPartition ==
    pc = "done" =>
        LET N == Len(frame_actions)
            n == Len(Timeline)
        IN  /\ SumSeq([k \in 1..n |-> Timeline[k].duration_frames]) = N
            /\ (N = 0) <=> (n = 0)
            /\ n > 0 => Timeline[1].start_frame = 0 /\ Timeline[n].end_frame = N - 1
            /\ \A k \in 1..n :
                /\ Timeline[k].duration_frames >= 1
                /\ Timeline[k].end_frame =
                       Timeline[k].start_frame + Timeline[k].duration_frames - 1
            /\ \A k \in 1..(n - 1) :
                /\ Timeline[k + 1].start_frame = Timeline[k].end_frame + 1
                /\ Timeline[k + 1].action # Timeline[k].action

\* C2 witness: a summary with at least three segments
C2_Witness == pc = "done" /\ Len(Timeline) >= 3

\* C3: with zero usable frames analyze_behavior never returns a summary with
\* empty statistics, empty timeline and zero total frames.
C3_NoEmptySummary ==
    ~ /\ pc = "done"
      /\ behavior_summary.video_info.total_frames = 0
      /\ behavior_summary.action_timeline = <<>>
      /\ DOMAIN behavior_summary.action_statistics = {}

\* C4: every segment's start_frame and end_frame are the "frame" fields of the
\* first and last frame records of its run.
C4_SegmentsUseFrameIndices ==
    pc = "done" =>
        \A k \in 1..Len(Timeline) :
            /\ Timeline[k].start_frame = frame_actions[FirstRecord(k)].frame
            /\ Timeline[k].end_frame =
                   frame_actions[FirstRecord(k) + Timeline[k].duration_frames - 1].frame

\* C5: every feature set update returns carries every motion key, and all of
\* them are zero while the buffer holds fewer than 2 frames.
C5_MotionKeysPresent ==
    (pc = "loop" /\ features # None) =>
        /\ MotionKeys \subseteq DOMAIN features
        /\ Len(history_buffer) < 2 =>
            \A key \in MotionKeys :
                IF key = "tail_oscillation_count"
                THEN features[key] = 0
                ELSE features[key][1] = 0

\* the last n elements of s
LastN(s, n) == SubSeq(s, Len(s) - n + 1, Len(s))

Min(a, b) == IF a < b THEN a ELSE b

BufferEntry(r) == [kpts |-> r.kpts, bbox |-> r.bbox]

\* C6: the buffer never holds more than window_size entries, it is exactly the
\* most recent min(n, window_size) valid detections in arrival order, and the
\* motion features returned are those of these frames.
C6_BufferIsRecentWindow ==
    LET recent == LastN(arrivals, Min(Len(arrivals), window_size))
        entries == [i \in 1..Len(recent) |-> BufferEntry(recent[i])]
    IN  /\ Len(history_buffer) <= window_size
        /\ history_buffer = entries
        /\ (result # None /\ result.detected /\ Len(entries) >= 2) =>
               \A key \in MotionKeys :
                   features[key] = compute_motion_features(entries)[key]

\* C6 witness: more valid detections than the window holds, distinct ones
C6_Witness ==
    /\ window_size >= 2
    /\ Len(arrivals) > window_size + 1
    /\ arrivals[Len(arrivals)] # arrivals[Len(arrivals) - 1]
    /\ arrivals[1] # arrivals[Len(arrivals)]

\* C7: update on a result without detection returns (None, None) and leaves
\* the history buffer as it was.
C7_NoDetectionLeavesBuffer ==
    [][(result' = NoDetection /\ idx' = idx + 1) =>
           /\ features' = None
           /\ kpts_norm' = None
           /\ history_buffer' = history_buffer]_vars

\* C7 witness: an update without detection on an extractor that holds frames
C7_Witness ==
    /\ result = NoDetection
    /\ features = None
    /\ Len(history_buffer) >= 2

\* both inputs of the classified call were present
Classified == pc = "classified" /\ features # None /\ kpts_norm # None

InCentroidVy == Get(features, "centroid_vertical_velocity", Zero)

\* C8: centroid vertical velocity exactly at the jump threshold (-0.015) does
\* not give "jumping"; one unit (0.001) below it does.
C8_JumpThresholdStrict ==
    Classified =>
        /\ InCentroidVy[1] = -15 * InCentroidVy[2] => action # "jumping"
        /\ InCentroidVy[1] = -16 * InCentroidVy[2] => action = "jumping"

\* C8 witness: a call at exactly the threshold, none of the later rules hiding it
C8_Witness ==
    /\ Classified
    /\ InCentroidVy = <<-15, 1>>
    /\ action \notin {"jumping", "rearing"}

InTailVariance == Get(features, "tail_angle_variance", Zero)

InTailOscillations == Get(features, "tail_oscillation_count", 0)

\* C9: a "_wagging" label is returned only when the tail standard deviation
\* exceeds 9.0 and the oscillation count exceeds 25.
C9_WaggingNeedsBoth ==
    pc = "classified" =>
        /\ action \in PlainLabels \cup WaggingLabels
        /\ action \in WaggingLabels =>
            /\ InTailVariance[1] > 81 * InTailVariance[2]
            /\ InTailOscillations > 25

\* C9 witness: a "_wagging" label was returned
C9_Witness == pc = "classified" /\ action \in WaggingLabels

InFrontVy == Get(features, "front_paws_vertical_velocity", Zero)

InAvgVel == Get(features, "avg_velocity", Zero)

\* twice the paw height gap: (y3 + y9) - (y0 + y6)
InPawGap2 == (kpts_norm.y[3] + kpts_norm.y[9]) - (kpts_norm.y[0] + kpts_norm.y[6])

JumpCondition == InCentroidVy[1] * 1000 < -15 * 1000 * InCentroidVy[2]

RearCondition == InFrontVy[1] * 1000 < -5 * 1000 * InFrontVy[2] \/ InPawGap2 > 600

\* C10: whenever the jump condition holds the label is "jumping"; whenever it
\* fails and the front-paw velocity or paw-gap condition holds the label is
\* "rearing"; whatever the other signals are.
C10_PriorityOrder ==
    Classified =>
        /\ JumpCondition => action = "jumping"
        /\ (~JumpCondition /\ RearCondition) => action = "rearing"

\* C10 witness: jump and rear conditions both hold on a moving, wagging input
C10_Witness ==
    /\ Classified
    /\ JumpCondition /\ RearCondition
    /\ InAvgVel[1] > 150 * InAvgVel[2]
    /\ InTailOscillations > 25
    /\ action = "jumping"

InLegVar == Get(features, "leg_angle_variance", Zero)

MovingCondition == InAvgVel[1] > 50 * InAvgVel[2]

RunningCondition ==
    InAvgVel[1] * 100 > 15 * 1000 * InAvgVel[2] /\ InLegVar[1] > 15 * InLegVar[2]

WaggingCondition ==
    InTailVariance[1] > 81 * InTailVariance[2] /\ InTailOscillations > 25

\* the pattern of the given pose holds on the drawn leg angles, paws and box
PatternHolds(pose) ==
    LET fl == features.front_left_leg_angle
        fr == features.front_right_leg_angle
        rl == features.rear_left_leg_angle
        rr == features.rear_right_leg_angle
        front == <<kpts_norm.y[0] + kpts_norm.y[6], 2>>
        rear == <<kpts_norm.y[3] + kpts_norm.y[9], 2>>
        ratio == <<features.bbox_height * 1000, features.bbox_width * 1000 + 1>>
    IN  CASE pose = "sitting" -> is_sitting(fl, fr, rl, rr)
          [] pose = "standing" -> is_standing(fl, fr, rl, rr)
          [] pose = "standing_on_two_legs" ->
                 is_standing_on_two_legs(rl, rr, rear, front, ratio)
          [] pose = "lying" -> is_lying(fl, fr, rl, rr)

\* C11: when neither jumping nor rearing fires, a moving input gets the motion
\* label alone ("walking" or "running"); an idle input matching no pose pattern
\* gets "idle"; any other idle input gets a pose whose pattern holds, with the
\* "_wagging" suffix exactly when the wagging condition holds.
C11_LabelConstruction ==
    (Classified /\ ~JumpCondition /\ ~RearCondition) =>
        /\ MovingCondition =>
               action = (IF RunningCondition THEN "running" ELSE "walking")
        /\ (~MovingCondition /\ \A pose \in Poses : ~PatternHolds(pose)) =>
               action = "idle"
        /\ (~MovingCondition /\ \E pose \in Poses : PatternHolds(pose)) =>
               \E pose \in Poses :
                   /\ PatternHolds(pose)
                   /\ action = (IF WaggingCondition THEN pose \o "_wagging" ELSE pose)

\* C11 witness: a moving input whose tail wags and whose legs match a pose
C11_Witness ==
    /\ Classified /\ ~JumpCondition /\ ~RearCondition
    /\ MovingCondition /\ WaggingCondition
    /\ PatternHolds("standing")
    /\ action = "running"

\* the pose patterns that hold on the drawn input
HoldingPatterns == {pose \in Poses : PatternHolds(pose)}

\* C13 as stated: for every combination of leg angles, paw heights and height
\* ratio at most one of the four pose patterns holds.
C13_PatternsExclusive ==
    Classified => Cardinality(HoldingPatterns) <= 1

\* C13 as amended: at most one of the four pose patterns holds, except that
\* "standing" and "standing_on_two_legs" can hold together; the label is then
\* "standing", the earlier pattern of the chain.
C13_PatternsExclusiveButStanding ==
    Classified =>
        /\ \/ Cardinality(HoldingPatterns) <= 1
           \/ HoldingPatterns = {"standing", "standing_on_two_legs"}
        /\ (/\ ~JumpCondition /\ ~RearCondition /\ ~MovingCondition
            /\ HoldingPatterns = {"standing", "standing_on_two_legs"}) =>
               action \in {"standing", "standing_wagging"}

\* C13 witness: both patterns hold on an idle input and the label is "standing"
C13_Witness ==
    /\ Classified /\ ~JumpCondition /\ ~RearCondition /\ ~MovingCondition
    /\ HoldingPatterns = {"standing", "standing_on_two_legs"}
    /\ action = "standing"

Statistics == behavior_summary.action_statistics

RecordsLabelled(label) ==
    {i \in 1..Len(frame_actions) : frame_actions[i].action = label}

\* the sum of total_frames over the given labels
RECURSIVE SumTotalFrames(_)
SumTotalFrames(labels) ==
    IF labels = {} THEN 0
    ELSE LET label == CHOOSE x \in labels : TRUE
         IN  Statistics[label].total_frames + SumTotalFrames(labels \ {label})

\* C12: for every label present, total_frames is the number of frame records
\* with that label and tail_wagging_frames the number of those flagged as
\* wagging; the total_frames sum to the number of records; N records all
\* labelled L and none flagged give one segment (L, 0, N-1, N frames, N/30 s),
\* percentage "100.0%" and tail-wagging percentage "0.0%".
C12_StatisticsCount ==
    pc = "done" =>
        LET N == Len(frame_actions)
            labels == {frame_actions[i].action : i \in 1..N}
        IN  /\ DOMAIN Statistics = labels
            /\ \A label \in labels :
                /\ Statistics[label].total_frames =
                       Cardinality(RecordsLabelled(label))
                /\ Statistics[label].tail_wagging_frames =
                       Cardinality({i \in RecordsLabelled(label) :
                                        frame_actions[i].is_tail_wagging})
            /\ SumTotalFrames(labels) = N
            /\ (/\ Cardinality(labels) = 1
                /\ \A i \in 1..N : ~frame_actions[i].is_tail_wagging) =>
                   \A label \in labels :
                       /\ Timeline = <<[action           |-> label,
                                        start_frame      |-> 0,
                                        end_frame        |-> N - 1,
                                        duration_frames  |-> N,
                                        duration_seconds |-> <<N, 30>>]>>
                       /\ Statistics[label].percentage = "100.0%"
                       /\ Statistics[label].tail_wagging_percentage = "0.0%"

\* C12 witness: a summary with two labels, one of them with some but not all
\* of its records flagged as wagging
C12_Witness ==
    /\ pc = "done"
    /\ Cardinality(DOMAIN Statistics) >= 2
    /\ \E label \in DOMAIN Statistics :
        /\ Statistics[label].tail_wagging_frames > 0
        /\ Statistics[label].tail_wagging_frames < Statistics[label].total_frames

\* C14: a result without detection leaves the debounce buffer as it was, so
\* raw "running" records count as consecutive across missing detections: the
\* buffer holds as many entries as the latest records are raw "running" (5 at
\* most), and the fifth such record is "running" whatever frames lie between.
C14_GapsKeepDebounce ==
    pc = "loop" =>
        LET n == Len(raw_actions)
            trailing == Cardinality({k \in 1..n :
                            \A j \in (n - k + 1)..n : raw_actions[j] = "running"})
        IN  /\ Len(motion_history) = Min(trailing, 5)
            /\ \A i \in 5..n :
                   (/\ \A j \in (i - 4)..i : raw_actions[j] = "running"
                    /\ frame_actions[i].frame - frame_actions[i - 4].frame > 4) =>
                       frame_actions[i].action = "running"

\* C14 witness: a record smoothed to "running" with a missing detection among
\* the five raw "running" frames that filled the buffer
C14_Witness ==
    \E i \in 5..Len(frame_actions) :
        /\ frame_actions[i].action = "running"
        /\ frame_actions[i].frame - frame_actions[i - 4].frame > 4
        /\ (i > 5 => raw_actions[i - 5] # "running")

\* the oscillation count of the latest returned feature set
LatestOscillations == Get(features, "tail_oscillation_count", 0)

\* C15: with the default window none of the first 27 frame records has a
\* "_wagging" label; the oscillation count is at most the buffer length minus
\* 2 (0 for fewer than 3 buffered frames).
C15_NoEarlyWagging ==
    /\ window_size = 60
    /\ \A i \in 1..Min(27, Len(frame_actions)) :
        /\ frame_actions[i].action \notin WaggingLabels
        /\ raw_actions[i] \notin WaggingLabels
    /\ features # None =>
        /\ LatestOscillations <= Len(history_buffer) - 2 \/ LatestOscillations = 0
        /\ Len(history_buffer) < 3 => LatestOscillations = 0

\* C15 witness: the 27th record carries 25 oscillations and no suffix, the
\* 28th is the first with the suffix
C15_Witness ==
    /\ Len(frame_actions) = 28
    /\ LatestOscillations = 26
    /\ frame_actions[27].action = "standing"
    /\ frame_actions[28].action = "standing_wagging"

\* C16: in a returned summary every frame record whose label ends in
\* "_wagging" has is_tail_wagging set.
C16_LabelImpliesFlag ==
    pc = "done" =>
        \A i \in 1..Len(behavior_summary.frame_by_frame_data) :
            LET rec == behavior_summary.frame_by_frame_data[i]
            IN  /\ rec.action \in PlainLabels \cup WaggingLabels
                /\ rec.action \in WaggingLabels => rec.is_tail_wagging

\* C16 witness: a summary with a "_wagging" record and with a flagged record
\* that has no suffix
C16_Witness ==
    /\ pc = "done"
    /\ \E i \in 1..Len(behavior_summary.frame_by_frame_data) :
           behavior_summary.frame_by_frame_data[i].action \in WaggingLabels
    /\ \E i \in 1..Len(behavior_summary.frame_by_frame_data) :
        /\ behavior_summary.frame_by_frame_data[i].is_tail_wagging
        /\ behavior_summary.frame_by_frame_data[i].action \notin WaggingLabels

====
